---- MODULE Spec2Model ----
(***************************************************************************)
(* asn-analyzer: the processing tracker (src/utils/tracker.py) and the     *)
(* batch run of ASNAnalyzer.process_asn_list / cli (src/main.py).          *)
(*                                                                         *)
(* An ASN is a canonical decimal string in the code; here it is a number   *)
(* of 1..NumAsn standing for one such string.  The tracking file is the    *)
(* record "file": its kind says what a reader finds on disk, asns is the   *)
(* JSON array 'processed_asns' and total the field 'total_processed'.      *)
(* The field 'last_updated' (datetime.now()) is read by nothing and is     *)
(* left out.                                                               *)
(*                                                                         *)
(* Three specifications:                                                   *)
(*   Spec           one cli process after another: construct, then reset   *)
(*                  or a batch run, with the run's position in pc;         *)
(*   SpecTracker    the ProcessingTracker class alone, its methods called  *)
(*                  in any order on any tracking file;                     *)
(*   SpecValidator  the ASNValidator class (src/utils/validators.py): one  *)
(*                  of its methods called on a text.  There a text is the  *)
(*                  sequence of its characters and an integer the sequence *)
(*                  of its decimal digits, as Python integers are          *)
(*                  unbounded.                                             *)
(***************************************************************************)
EXTENDS Integers, Sequences, FiniteSets, TLC

VARIABLES
    file,               \* the tracking file data/input/processed_asns.json
    processed_asns,     \* ProcessingTracker.processed_asns (in-memory set)
    asn_list,           \* the requested list (cli: valid_asns); the argument of a tracker call
    new_asns,           \* process_asn_list: new_asns
    already_processed,  \* process_asn_list: already_processed
    force,              \* force_reprocess
    pc,                 \* position of the cli process
    i,                  \* loop index of enumerate(new_asns, 1)
    results,            \* process_asn_list: results
    successful_count,
    failed_count,
    bgp_info,           \* loop local: what scrape_as_info returned for the item
    company_info,       \* loop local: what scrape_company_info returned for the item
    outfile,            \* the batch output file of this run
    save_status,        \* how the latest save_progress() of this process ended
    loaded,             \* history: the tracking set the process loaded at construction
    checkpoint,         \* history: the tracking file as the last completed write left it
    op,                 \* SpecTracker: the latest tracker call and how it ended
    before,             \* SpecTracker: in-memory set and file just before that call
    asn_input,          \* SpecValidator: the argument of the validator call
    normalized,         \* SpecValidator: the normalized ASN returned, or None
    suggestion,         \* SpecValidator: the suggestion returned, or None
    valid,              \* SpecValidator: what is_valid_asn returned
    called              \* SpecValidator: the validator method that was called

vars == <<file, processed_asns, asn_list, new_asns, already_processed, force, pc, i,
          results, successful_count, failed_count, bgp_info, company_info, outfile,
          save_status, loaded, checkpoint, op, before, asn_input, normalized,
          suggestion, valid, called>>

runVars == <<force, pc, i, results, successful_count, failed_count, bgp_info,
             company_info, outfile, save_status, loaded, checkpoint>>

trackerVars == <<op, before>>

validatorVars == <<asn_input, normalized, suggestion, valid, called>>

\* Python values of the validator: None, a str (its characters), an int
\* (its decimal digits)
None == [kind |-> "none", chars |-> <<>>]

Str(s) == [kind |-> "str", chars |-> s]

\* no validator call has been made
validatorIdle ==
    /\ asn_input = None /\ normalized = None /\ suggestion = None
    /\ valid = FALSE /\ called = "none"

(***************************************************************************)
(* Bounds of the model and constants of the program.                       *)
(***************************************************************************)
NumAsn == 5
MaxBatch == 6
MaxFail == 1
MaxTrackerAsn == 2
MaxLen == 3
MaxFileLen == 2

\* main.py line 109: "if i % 5 == 0"
CheckpointEvery == 5

ASN == 1..NumAsn
TrackerAsn == 1..MaxTrackerAsn

Range(s) == {s[k] : k \in 1..Len(s)}

Min(S) == CHOOSE x \in S : \A y \in S : x <= y

SeqsUpTo(S, n) == UNION {[1..m -> S] : m \in 0..n}

(***************************************************************************)
(* ProcessingTracker                                                       *)
(***************************************************************************)

\* list(self.processed_asns): the elements of the set, each once.  Python
\* fixes no order for a set of strings; the ascending order stands for
\* whichever order the interpreter produces (no reader depends on it).
RECURSIVE SetToList(_)
SetToList(S) == IF S = {} THEN <<>> ELSE <<Min(S)>> \o SetToList(S \ {Min(S)})

NoFile == [kind |-> "absent", asns |-> <<>>, total |-> 0]

\* A file that exists and is not the object the tracker writes:
\*   unreadable  open() raises IOError
\*   badjson     json.load raises JSONDecodeError
\*   notobject   valid JSON that is not an object (an array, a number)
\*   nokey       an object without 'processed_asns'
\*   badlist     an object whose 'processed_asns' is not iterable (a number, null)
CorruptKinds == {"unreadable", "badjson", "notobject", "nokey", "badlist"}

CorruptFile(k) == [kind |-> k, asns |-> <<>>, total |-> 0]

\* tracking_data of _save_processed_asns, as json.dump writes it
TrackingData(S) == [kind |-> "ok", asns |-> SetToList(S), total |-> Cardinality(S)]

\* _load_processed_asns: the set returned, or the exception that escapes it.
\* Only JSONDecodeError and IOError are caught; data.get on a non-object
\* raises AttributeError and set() of a non-iterable raises TypeError.
LoadFile(f) ==
    CASE f.kind = "absent"     -> [raised |-> FALSE, set |-> {}]
      [] f.kind = "unreadable" -> [raised |-> FALSE, set |-> {}]
      [] f.kind = "badjson"    -> [raised |-> FALSE, set |-> {}]
      [] f.kind = "notobject"  -> [raised |-> TRUE,  set |-> {}]
      [] f.kind = "nokey"      -> [raised |-> FALSE, set |-> {}]
      [] f.kind = "badlist"    -> [raised |-> TRUE,  set |-> {}]
      [] f.kind = "ok"         -> [raised |-> FALSE, set |-> Range(f.asns)]

\* filter_new_asns: two list comprehensions over asn_list
FilterNewDropsRepeats(S, l) ==
    [new     |-> SetToList({a \in Range(l) : a \notin S}),
     already |-> SelectSeq(l, LAMBDA a : a \in S)]

FilterNewIgnoringHistory(S, l) == [new |-> l, already |-> <<>>]

FilterNew(S, l) ==
    [new     |-> SelectSeq(l, LAMBDA a : a \notin S),
     already |-> SelectSeq(l, LAMBDA a : a \in S)]

\* mark_asn_processed: self.processed_asns.add(asn)
MarkToggling(S, a) == IF a \in S THEN S \ {a} ELSE S \cup {a}

Mark(S, a) == S \cup {a}

\* How a call of _save_processed_asns can end:
\*   ok           the file is written
\*   ioerror      open() raises IOError, which is caught and reported; the
\*                file is as it was
\*   mkdir_error  parent.mkdir raises before the try block; the exception
\*                escapes.  With exist_ok=True this needs the storage
\*                location not to be a directory yet, so no tracking file exists.
SaveOutcomes(f) ==
    {"ok", "ioerror"} \cup (IF f.kind = "absent" THEN {"mkdir_error"} ELSE {})

\* the tracking file after _save_processed_asns ended with outcome o
SaveFileDroppingOne(f, S, o) ==
    IF o = "ok" THEN TrackingData(IF S = {} THEN S ELSE S \ {Min(S)}) ELSE f

SaveFile(f, S, o) == IF o = "ok" THEN TrackingData(S) ELSE f

\* reset_tracking: "if self.tracking_file.exists(): self.tracking_file.unlink()".
\* unlinked = FALSE is unlink() raising (the file stays).
UnlinkOutcomes(f) == IF f.kind = "absent" THEN {TRUE} ELSE {TRUE, FALSE}

ResetKeepingFile(f, unlinked) == f

ResetFile(f, unlinked) == IF unlinked THEN NoFile ELSE f

(***************************************************************************)
(* SpecTracker: the tracker's methods, called in any order.                *)
(***************************************************************************)
TrackerFiles ==
    {NoFile} \cup {CorruptFile(k) : k \in CorruptKinds}
    \cup {[kind |-> "ok", asns |-> s, total |-> Len(s)] :
            s \in SeqsUpTo(TrackerAsn, MaxFileLen)}

TrackerLists == SeqsUpTo(TrackerAsn, MaxLen)

runIdle ==
    /\ force = FALSE /\ pc = "exit" /\ i = 0 /\ results = <<>>
    /\ successful_count = 0 /\ failed_count = 0
    /\ bgp_info = "unset" /\ company_info = "unset"
    /\ outfile = [kind |-> "absent", data |-> <<>>]
    /\ save_status = "none" /\ loaded = {}

InitTracker ==
    /\ file \in TrackerFiles
    /\ processed_asns = {}
    /\ asn_list = <<>> /\ new_asns = <<>> /\ already_processed = <<>>
    /\ runIdle
    /\ checkpoint = NoFile
    /\ op = "none"
    /\ before = [asns |-> {}, file |-> file]
    /\ validatorIdle

Snapshot == [asns |-> processed_asns, file |-> file]

\* ProcessingTracker.__init__ (tracker.py 14-16)
TLoad ==
    /\ LET r == LoadFile(file) IN
        /\ op' = IF r.raised THEN "load_raised" ELSE "load"
        /\ processed_asns' = r.set
    /\ before' = Snapshot
    /\ asn_list' = <<>> /\ new_asns' = <<>> /\ already_processed' = <<>>
    /\ UNCHANGED <<file, runVars, validatorVars>>

Constructed == op \notin {"none", "load_raised"}

\* filter_new_asns(l)
TFilter ==
    /\ Constructed
    /\ \E l \in TrackerLists :
        /\ asn_list' = l
        /\ new_asns' = FilterNew(processed_asns, l).new
        /\ already_processed' = FilterNew(processed_asns, l).already
    /\ op' = "filter"
    /\ before' = Snapshot
    /\ UNCHANGED <<file, processed_asns, runVars, validatorVars>>

\* mark_asn_processed(a)
TMark ==
    /\ Constructed
    /\ \E a \in TrackerAsn :
        /\ asn_list' = <<a>>
        /\ processed_asns' = Mark(processed_asns, a)
    /\ new_asns' = <<>> /\ already_processed' = <<>>
    /\ op' = "mark"
    /\ before' = Snapshot
    /\ UNCHANGED <<file, runVars, validatorVars>>

\* save_progress()
TSave ==
    /\ Constructed
    /\ \E o \in SaveOutcomes(file) :
        /\ file' = SaveFile(file, processed_asns, o)
        /\ op' = CASE o = "ok" -> "save_ok"
                   [] o = "ioerror" -> "save_ioerror"
                   [] o = "mkdir_error" -> "save_raised"
    /\ before' = Snapshot
    /\ asn_list' = <<>> /\ new_asns' = <<>> /\ already_processed' = <<>>
    /\ UNCHANGED <<processed_asns, runVars, validatorVars>>

\* reset_tracking()
TReset ==
    /\ Constructed
    /\ \E unlinked \in UnlinkOutcomes(file) :
        /\ file' = ResetFile(file, unlinked)
        /\ op' = IF unlinked THEN "reset" ELSE "reset_raised"
    /\ processed_asns' = {}
    /\ before' = Snapshot
    /\ asn_list' = <<>> /\ new_asns' = <<>> /\ already_processed' = <<>>
    /\ UNCHANGED <<runVars, validatorVars>>

NextTracker == TLoad \/ TFilter \/ TMark \/ TSave \/ TReset

SpecTracker == InitTracker /\ [][NextTracker]_vars

(***************************************************************************)
(* Spec: cli processes, one after another, over the same tracking file.    *)
(***************************************************************************)

\* The requested lists: NumAsn canonical ASNs in a ring, a list being a walk
\* of up to MaxBatch steps from any of them (longer than the ring, it
\* repeats an ASN).  cli hands over a list with at least one ASN (line 219).
Window(s, n) == [k \in 1..n |-> ((s + k - 2) % NumAsn) + 1]

Batches == {Window(s, n) : s \in ASN, n \in 1..MaxBatch}

InitFiles ==
    {NoFile} \cup {CorruptFile(k) : k \in CorruptKinds}
    \cup {TrackingData(S) : S \in SUBSET ASN}

NoOutput == [kind |-> "absent", data |-> <<>>]

Init ==
    /\ file \in InitFiles
    /\ processed_asns = {}
    /\ asn_list = <<>> /\ new_asns = <<>> /\ already_processed = <<>>
    /\ runIdle
    /\ checkpoint = file
    /\ op = "none"
    /\ before = [asns |-> {}, file |-> NoFile]
    /\ validatorIdle

Running == {"item", "ckpt", "sleep", "final", "write"}

Ended == {"exit", "crashed", "reset_done", "no_valid", "done", "interrupted", "raised"}

\* the frame of process_asn_list is gone (it returned early, or an exception unwinds it)
frameGone ==
    /\ new_asns' = <<>> /\ already_processed' = <<>>
    /\ i' = 0 /\ results' = <<>>
    /\ successful_count' = 0 /\ failed_count' = 0
    /\ bgp_info' = "unset" /\ company_info' = "unset"

\* cli line 166: analyzer = ASNAnalyzer(), which constructs the tracker
\* (tracker.py 14-16).  A new process: nothing of the previous one is left
\* but the files.
Construct ==
    /\ pc \in Ended
    /\ LET r == LoadFile(file) IN
        /\ pc' = IF r.raised THEN "crashed" ELSE "ready"
        /\ processed_asns' = r.set
        /\ loaded' = r.set
    /\ asn_list' = <<>> /\ force' = FALSE
    /\ frameGone
    /\ outfile' = NoOutput
    /\ save_status' = "none"
    /\ checkpoint' = file
    /\ UNCHANGED <<file, trackerVars, validatorVars>>

\* cli lines 168-171: --reset-tracking
ResetTracking ==
    /\ pc = "ready"
    /\ \E unlinked \in UnlinkOutcomes(file) :
        /\ file' = ResetFile(file, unlinked)
        /\ pc' = IF unlinked THEN "reset_done" ELSE "raised"
    /\ processed_asns' = {}
    /\ UNCHANGED <<asn_list, new_asns, already_processed, force, i, results,
                   successful_count, failed_count, bgp_info, company_info, outfile,
                   save_status, loaded, checkpoint, trackerVars, validatorVars>>

\* cli lines 201-221: none of the requested tokens is a valid ASN; cli
\* reports them and returns before process_asn_list is called.
NoValidAsns ==
    /\ pc = "ready"
    /\ pc' = "no_valid"
    /\ UNCHANGED <<file, processed_asns, asn_list, new_asns, already_processed, force,
                   i, results, successful_count, failed_count, bgp_info, company_info,
                   outfile, save_status, loaded, checkpoint, trackerVars, validatorVars>>

\* main.py 34-39: the partition the loop will walk
Partition(S, l, f) == IF f THEN [new |-> l, already |-> <<>>] ELSE FilterNew(S, l)

\* cli line 226 and process_asn_list lines 24-63, up to the loop.
\* out_dir_ok = FALSE is line 31's mkdir raising.
BeginRun ==
    /\ pc = "ready"
    /\ \E l \in Batches, f \in BOOLEAN, out_dir_ok \in BOOLEAN :
        /\ asn_list' = l
        /\ force' = f
        /\ IF ~out_dir_ok
             THEN /\ pc' = "raised"
                  /\ frameGone
             ELSE LET p == Partition(processed_asns, l, f) IN
                  IF p.new = <<>>
                    THEN /\ pc' = "done"          \* line 59: return []
                         /\ frameGone
                    ELSE /\ pc' = "item"
                         /\ new_asns' = p.new
                         /\ already_processed' = p.already
                         /\ i' = 1
                         /\ results' = <<>>
                         /\ successful_count' = 0 /\ failed_count' = 0
                         /\ bgp_info' = "unset" /\ company_info' = "unset"
    /\ UNCHANGED <<file, processed_asns, outfile, save_status, loaded, checkpoint,
                   trackerVars, validatorVars>>

\* What scrape_as_info can return (it catches every Exception itself):
\*   site      routing info with a company website
\*   nosite    routing info without one
\*   asn_only  ASInfo(asn=asn) after a fetch or parse failure
BgpOutcomes == {"site", "nosite", "asn_only"}

\* What the company lookup leaves in company_info: line 73's None when the
\* lookup is skipped, else CompanyInfo or the None of a failed fetch.
CompanyOutcomes(bgp) == IF bgp = "site" THEN {"info", "none"} ELSE {"skipped"}

\* the entry appended to results for the item: the serialized record (line 89)
\* or the error record of lines 100-105 (error message and timestamp left out)
ItemEntryLostOnFailure(asn, raised) ==
    IF raised THEN <<>> ELSE <<[asn |-> asn, error |-> FALSE]>>

ItemEntry(asn, raised) == <<[asn |-> asn, error |-> raised]>>

\* results.append(...) of lines 89 and 105
AppendResultInFront(r, e) == e \o r

AppendResult(r, e) == r \o e

\* line 92 is reached only when nothing was raised before it
MarkedAfterItemAlways(S, asn, raised) == Mark(S, asn)

MarkedAfterItem(S, asn, raised) == IF raised THEN S ELSE Mark(S, asn)

\* lines 65-106: one item of the loop.  raised = TRUE is an Exception
\* escaping the try block's statements (caught at line 97).
ProcessItem ==
    /\ pc = "item"
    /\ \E bgp \in BgpOutcomes :
       \E company \in CompanyOutcomes(bgp) :
       \E raised \in {r \in BOOLEAN : r => failed_count < MaxFail} :
        /\ bgp_info' = bgp
        /\ company_info' = company
        /\ results' = AppendResult(results, ItemEntry(new_asns[i], raised))
        /\ processed_asns' = MarkedAfterItem(processed_asns, new_asns[i], raised)
        /\ successful_count' = IF raised THEN successful_count ELSE successful_count + 1
        /\ failed_count' = IF raised THEN failed_count + 1 ELSE failed_count
    /\ pc' = "ckpt"
    /\ UNCHANGED <<file, asn_list, new_asns, already_processed, force, i, outfile,
                   save_status, loaded, checkpoint, trackerVars, validatorVars>>

\* line 109
CheckpointDueEverySixth(n) == n % (CheckpointEvery + 1) = 0

CheckpointDue(n) == n % CheckpointEvery = 0

SaveStatus(o) == CASE o = "ok" -> "ok"
                   [] o = "ioerror" -> "ioerror"
                   [] o = "mkdir_error" -> "raised"

\* save_progress() in the run: the file, the status, and where the run goes
saveProgress(next_pc) ==
    \E o \in SaveOutcomes(file) :
        /\ file' = SaveFile(file, processed_asns, o)
        /\ save_status' = SaveStatus(o)
        /\ checkpoint' = IF o = "ok" THEN file' ELSE checkpoint
        /\ IF o = "mkdir_error"
             THEN /\ pc' = "raised"
                  /\ frameGone
             ELSE /\ pc' = next_pc
                  /\ UNCHANGED <<new_asns, already_processed, i, results,
                                 successful_count, failed_count, bgp_info, company_info>>

\* lines 108-110: the periodic save
Checkpoint ==
    /\ pc = "ckpt"
    /\ IF CheckpointDue(i)
         THEN saveProgress("sleep")
         ELSE /\ pc' = "sleep"
              /\ UNCHANGED <<file, save_status, checkpoint, new_asns, already_processed,
                             i, results, successful_count, failed_count, bgp_info,
                             company_info>>
    /\ UNCHANGED <<processed_asns, asn_list, force, outfile, loaded, trackerVars, validatorVars>>

\* line 113 and the step of the for loop
Sleep ==
    /\ pc = "sleep"
    /\ IF i < Len(new_asns)
         THEN /\ i' = i + 1
              /\ pc' = "item"
         ELSE /\ i' = i
              /\ pc' = "final"
    /\ bgp_info' = "unset" /\ company_info' = "unset"
    /\ UNCHANGED <<file, processed_asns, asn_list, new_asns, already_processed, force,
                   results, successful_count, failed_count, outfile, save_status,
                   loaded, checkpoint, trackerVars, validatorVars>>

\* line 116: the final save
FinalSave ==
    /\ pc = "final"
    /\ saveProgress("write")
    /\ UNCHANGED <<processed_asns, asn_list, force, outfile, loaded, trackerVars, validatorVars>>

\* lines 118-136: the results go to the output file; a failure is re-raised.
\* A failed write leaves no file (open() failed) or a partial one.
OutputDataCutShort(r) ==
    [kind |-> "written", data |-> SubSeq(r, 1, Len(r) - 1)]

\* lines 120-121: json.dump(results, f) into the output file
OutputData(r) == [kind |-> "written", data |-> r]

WriteOutput ==
    /\ pc = "write"
    /\ \/ /\ outfile' = OutputData(results)
          /\ pc' = "done"
          /\ UNCHANGED <<new_asns, already_processed, i, results, successful_count,
                         failed_count, bgp_info, company_info>>
       \/ /\ \E k \in {"absent", "partial"} : outfile' = [kind |-> k, data |-> <<>>]
          /\ pc' = "raised"
          /\ frameGone
    /\ UNCHANGED <<file, processed_asns, asn_list, force, save_status, loaded,
                   checkpoint, trackerVars, validatorVars>>

\* A tracking file whose write was cut short: open(..., 'w') has truncated
\* it and json.dump did not finish.
TruncatedFile == CorruptFile("badjson")

\* KeyboardInterrupt during the run (cli lines 228-230): the frame unwinds,
\* nothing is saved.  mid_write: the interrupt arrives inside a write that
\* has begun, of the tracking file (a due checkpoint, the final save) or of
\* the output file.
Interrupt ==
    /\ pc \in Running
    /\ \E mid_write \in BOOLEAN :
        /\ mid_write => \/ pc = "ckpt" /\ CheckpointDue(i)
                        \/ pc \in {"final", "write"}
        /\ file' = IF mid_write /\ pc \in {"ckpt", "final"} THEN TruncatedFile ELSE file
        /\ outfile' = IF mid_write /\ pc = "write"
                        THEN [kind |-> "partial", data |-> <<>>] ELSE outfile
    /\ pc' = "interrupted"
    /\ frameGone
    /\ UNCHANGED <<processed_asns, asn_list, force, save_status, loaded, checkpoint,
                   trackerVars, validatorVars>>

Next ==
    \/ Construct
    \/ ResetTracking
    \/ NoValidAsns
    \/ BeginRun
    \/ ProcessItem
    \/ Checkpoint
    \/ Sleep
    \/ FinalSave
    \/ WriteOutput
    \/ Interrupt

Spec == Init /\ [][Next]_vars

(***************************************************************************)
(* ASNValidator                                                            *)
(***************************************************************************)
MaxInputLen == 4

\* validators.py line 52: (high * 65536) + low
AsdotBase == 65536

DigitChars == <<"0", "1", "2", "3", "4", "5", "6", "7", "8", "9">>

Digits == Range(DigitChars)

DigitVal(c) == (CHOOSE k \in 1..10 : DigitChars[k] = c) - 1

\* the characters str.strip() removes (of those the inputs are made of)
Whitespace == {" "}

Reverse(s) == [k \in 1..Len(s) |-> s[Len(s) + 1 - k]]

RECURSIVE LStrip(_)
LStrip(s) == IF s # <<>> /\ Head(s) \in Whitespace THEN LStrip(Tail(s)) ELSE s

\* line 36: asn_input.strip()
Strip(s) == Reverse(LStrip(Reverse(LStrip(s))))

\* \d+ spanning the whole of s
IsDigits(s) == s # <<>> /\ \A k \in 1..Len(s) : s[k] \in Digits

\* a pattern's match is the sequence of its groups; no match is NoMatch
NoMatch == <<>>

\* line 14: ^(\d+)$
patterns_plain(s) == IF IsDigits(s) THEN <<s>> ELSE NoMatch

\* line 15: ^AS(\d+)$ with re.I
patterns_as_prefix(s) ==
    IF /\ Len(s) >= 3
       /\ s[1] \in {"A", "a"}
       /\ s[2] \in {"S", "s"}
       /\ IsDigits(SubSeq(s, 3, Len(s)))
      THEN <<SubSeq(s, 3, Len(s))>>
      ELSE NoMatch

\* line 16: ^(\d+)\.(\d+)$
patterns_asdot(s) ==
    LET splits == {k \in 1..Len(s) : /\ s[k] = "."
                                     /\ IsDigits(SubSeq(s, 1, k - 1))
                                     /\ IsDigits(SubSeq(s, k + 1, Len(s)))}
    IN  IF splits = {}
          THEN NoMatch
          ELSE LET k == CHOOSE k \in splits : TRUE
               IN  <<SubSeq(s, 1, k - 1), SubSeq(s, k + 1, Len(s))>>

\* A Python int of the validator: its decimal digits, lowest first, as
\* numbers, without high zeros (zero is the empty sequence).
RECURSIVE DropZeros(_)
DropZeros(d) == IF d # <<>> /\ Head(d) = "0" THEN DropZeros(Tail(d)) ELSE d

\* int(text) of a text of decimal digits
ParseDigits(d) == Reverse([k \in 1..Len(DropZeros(d)) |-> DigitVal(DropZeros(d)[k])])

\* str(n)
IntStr(n) == IF n = <<>> THEN <<"0">> ELSE Reverse([k \in 1..Len(n) |-> DigitChars[n[k] + 1]])

\* the decimal text of a small number of the model
RECURSIVE Dec(_)
Dec(n) == IF n < 10 THEN <<DigitChars[n + 1]>>
                    ELSE Dec(n \div 10) \o <<DigitChars[(n % 10) + 1]>>

\* n * m + c for a small m and carry c
RECURSIVE MulAdd(_, _, _)
MulAdd(n, m, c) ==
    IF n = <<>>
      THEN IF c = 0 THEN <<>> ELSE <<c % 10>> \o MulAdd(<<>>, m, c \div 10)
      ELSE LET t == Head(n) * m + c
           IN  <<t % 10>> \o MulAdd(Tail(n), m, t \div 10)

\* a + b + c for a carry c
RECURSIVE Add(_, _, _)
Add(a, b, c) ==
    IF a = <<>> /\ b = <<>>
      THEN IF c = 0 THEN <<>> ELSE <<c>>
      ELSE LET x == IF a = <<>> THEN 0 ELSE Head(a)
               y == IF b = <<>> THEN 0 ELSE Head(b)
               t == x + y + c
           IN  <<t % 10>> \o Add(IF a = <<>> THEN <<>> ELSE Tail(a),
                                 IF b = <<>> THEN <<>> ELSE Tail(b), t \div 10)

\* a <= b
RECURSIVE LeqFromTop(_, _)
LeqFromTop(a, b) ==
    \/ a = <<>>
    \/ a[Len(a)] < b[Len(b)]
    \/ /\ a[Len(a)] = b[Len(b)]
       /\ LeqFromTop(SubSeq(a, 1, Len(a) - 1), SubSeq(b, 1, Len(b) - 1))

Leq(a, b) == Len(a) < Len(b) \/ (Len(a) = Len(b) /\ LeqFromTop(a, b))

\* lines 50-52
asn_numberJoined(high, low) == ParseDigits(IntStr(high) \o IntStr(low))

asn_number(high, low) == Add(MulAdd(high, AsdotBase, 0), low, 0)

\* lines 20-26
valid_rangesWithoutTrans ==
    << <<Dec(1), Dec(23455)>>,
       <<Dec(64496), Dec(64511)>>,
       <<Dec(64512), Dec(65534)>>,
       <<Dec(65536), Dec(41999) \o Dec(99999)>> >>

valid_ranges ==
    << <<Dec(1), Dec(23455)>>,
       <<Dec(23456), Dec(23456)>>,
       <<Dec(64496), Dec(64511)>>,
       <<Dec(64512), Dec(65534)>>,
       <<Dec(65536), Dec(41999) \o Dec(99999)>> >>

\* "not v" is false
Truthy(v) ==
    CASE v.kind = "none" -> FALSE
      [] v.kind = "str"  -> v.chars # <<>>
      [] v.kind = "int"  -> ParseDigits(v.chars) # <<>>

\* lines 28-55
normalize_asn(v) ==
    IF ~Truthy(v) \/ v.kind # "str"
      THEN None
      ELSE LET s == Strip(v.chars) IN
           IF patterns_plain(s) # NoMatch THEN Str(s)
           ELSE IF patterns_as_prefix(s) # NoMatch THEN Str(patterns_as_prefix(s)[1])
           ELSE IF patterns_asdot(s) # NoMatch
             THEN LET match == patterns_asdot(s)
                      high == ParseDigits(match[1])
                      low == ParseDigits(match[2])
                  IN  Str(IntStr(asn_number(high, low)))
           ELSE None

\* int(v) of line 60: of a str, an optional sign and decimal digits with
\* whitespace around them; raised = TRUE is the ValueError or TypeError
NotAnInt == [raised |-> TRUE, negative |-> FALSE, n |-> <<>>]

IntOf(v) ==
    CASE v.kind = "none" -> NotAnInt
      [] v.kind = "int"  -> [raised |-> FALSE, negative |-> FALSE, n |-> ParseDigits(v.chars)]
      [] v.kind = "str"  ->
           LET s == Strip(v.chars)
               signed == s # <<>> /\ Head(s) \in {"+", "-"}
               d == IF signed THEN Tail(s) ELSE s
           IN  IF IsDigits(d)
                 THEN [raised |-> FALSE,
                       negative |-> signed /\ Head(s) = "-" /\ ParseDigits(d) # <<>>,
                       n |-> ParseDigits(d)]
                 ELSE NotAnInt

\* lines 57-63
is_valid_asn(v) ==
    LET asn_num == IntOf(v) IN
    /\ ~asn_num.raised
    /\ ~asn_num.negative
    /\ \E r \in 1..Len(valid_ranges) :
          /\ Leq(ParseDigits(valid_ranges[r][1]), asn_num.n)
          /\ Leq(asn_num.n, ParseDigits(valid_ranges[r][2]))

\* the two messages of lines 73 and 76
InvalidFormat == [kind |-> "invalid_format", chars |-> <<>>]

OutsideRanges(n) == [kind |-> "outside_ranges", chars |-> n.chars]

\* lines 65-78: (normalized_asn, suggestion)
validate_and_suggest(v) ==
    LET n == normalize_asn(v) IN
    IF ~Truthy(n) THEN <<None, InvalidFormat>>
    ELSE IF ~is_valid_asn(n) THEN <<None, OutsideRanges(n)>>
    ELSE <<n, None>>

\* The texts the validator is called on: every text of up to MaxInputLen
\* characters of InputChars, the ends of the valid ranges and their
\* neighbours in the three notations, and values that are not texts.
InputChars == {"0", "1", "6", "A", "s", ".", " ", "-"}

BoundaryNumbers ==
    {Dec(0), Dec(1), Dec(23455), Dec(23456), Dec(23457), Dec(64495), Dec(64496),
     Dec(64511), Dec(64512), Dec(65534), Dec(65535), Dec(65536), Dec(65537),
     Dec(13335), Dec(41999) \o Dec(99999), Dec(42000) \o Dec(0) \o Dec(0) \o Dec(0) \o Dec(0) \o Dec(0)}

BoundaryTexts ==
    BoundaryNumbers
      \cup {<<"A", "S">> \o d : d \in BoundaryNumbers}
      \cup {<<"a", "s">> \o d : d \in BoundaryNumbers}
      \cup {<<"0">> \o d : d \in BoundaryNumbers}
      \cup {<<"0", ".">> \o d : d \in BoundaryNumbers}
      \cup {Dec(64086) \o <<".">> \o Dec(59903), Dec(64086) \o <<".">> \o Dec(59904),
            Dec(1) \o <<".">> \o Dec(65535), <<"+">> \o Dec(13335),
            <<"A", "S", " ">> \o Dec(13335), <<"x">> \o Dec(13335)}

NonTexts == {None, [kind |-> "int", chars |-> Dec(0)], [kind |-> "int", chars |-> Dec(13335)]}

ValidatorInputs ==
    {Str(s) : s \in SeqsUpTo(InputChars, MaxInputLen) \cup BoundaryTexts} \cup NonTexts

InitValidator ==
    /\ file = NoFile
    /\ processed_asns = {}
    /\ asn_list = <<>> /\ new_asns = <<>> /\ already_processed = <<>>
    /\ runIdle
    /\ checkpoint = NoFile
    /\ op = "none"
    /\ before = [asns |-> {}, file |-> NoFile]
    /\ asn_input \in ValidatorInputs
    /\ normalized = None /\ suggestion = None
    /\ valid = FALSE /\ called = "none"

notValidator ==
    <<file, processed_asns, asn_list, new_asns, already_processed, runVars, trackerVars>>

CallNormalize ==
    /\ called = "none"
    /\ called' = "normalize_asn"
    /\ normalized' = normalize_asn(asn_input)
    /\ UNCHANGED <<asn_input, suggestion, valid, notValidator>>

CallIsValid ==
    /\ called = "none"
    /\ called' = "is_valid_asn"
    /\ valid' = is_valid_asn(asn_input)
    /\ UNCHANGED <<asn_input, normalized, suggestion, notValidator>>

CallValidate ==
    /\ called = "none"
    /\ called' = "validate_and_suggest"
    /\ normalized' = validate_and_suggest(asn_input)[1]
    /\ suggestion' = validate_and_suggest(asn_input)[2]
    /\ UNCHANGED <<asn_input, valid, notValidator>>

NextValidator ==
    \/ CallNormalize
    \/ CallIsValid
    \/ CallValidate

SpecValidator == InitValidator /\ [][NextValidator]_vars

(***************************************************************************)
(* Properties of the tracker (checked under SpecTracker).                  *)
(***************************************************************************)

\* s holds elements of t in t's order: an increasing choice of positions of t
IsSubseq(s, t) ==
    \E f \in [1..Len(s) -> 1..Len(t)] :
        /\ \A j, k \in 1..Len(s) : j < k => f[j] < f[k]
        /\ \A k \in 1..Len(s) : s[k] = t[f[k]]

\* C4: after a checkpoint that succeeded, a tracker constructed from the
\* tracking file partitions every batch into the same new and
\* already-processed lists as the tracker that was checkpointed.
C4_ResumeRoundTrip ==
    op = "save_ok" =>
        /\ ~LoadFile(file).raised
        /\ \A l \in TrackerLists :
             FilterNew(LoadFile(file).set, l) = FilterNew(processed_asns, l)

C4_Witness ==
    /\ op = "save_ok"
    /\ Cardinality(processed_asns) >= 2
    /\ before.file # file

\* C5: filter_new_asns returns two subsequences of its input, in the input's
\* order; an input element is in already_processed iff it is in the tracking
\* set; the two lists share no element and together hold exactly the
\* input's elements; the tracking set is as it was before the call.
C5_FilterPartitions ==
    op = "filter" =>
        /\ IsSubseq(new_asns, asn_list)
        /\ IsSubseq(already_processed, asn_list)
        /\ \A k \in 1..Len(asn_list) :
             asn_list[k] \in Range(already_processed) <=> asn_list[k] \in processed_asns
        /\ Range(new_asns) \cap Range(already_processed) = {}
        /\ Range(new_asns) \cup Range(already_processed) = Range(asn_list)
        /\ processed_asns = before.asns

C5_Witness ==
    /\ op = "filter"
    /\ Len(asn_list) = 3
    /\ asn_list[1] > asn_list[2]
    /\ Len(new_asns) = 2
    /\ Len(already_processed) = 1

\* C6: once reset_tracking() has returned, the in-memory set is empty, the
\* tracking file does not exist, and every ASN of every list is classified
\* as new, by this tracker and by one loaded from disk afterwards.
C6_ResetForgetsAll ==
    op = "reset" =>
        /\ processed_asns = {}
        /\ file.kind = "absent"
        /\ ~LoadFile(file).raised
        /\ \A l \in TrackerLists :
             /\ FilterNew(processed_asns, l).new = l
             /\ FilterNew(LoadFile(file).set, l).new = l

C6_Witness ==
    /\ op = "reset"
    /\ before.asns # {}
    /\ before.file.kind = "ok"
    /\ Range(before.file.asns) # {}

\* C7: mark_asn_processed inserts its ASN into the in-memory set and leaves
\* the tracking file alone; marking an ASN that is already in the set leaves
\* the set, and the count a checkpoint would write, as they were; the file
\* differs from what it was before a call only after save_progress or
\* reset_tracking.
C7_MarkIdempotentInMemory ==
    /\ op = "mark" =>
        /\ file = before.file
        /\ asn_list[1] \in processed_asns
        /\ before.asns \subseteq processed_asns
        /\ asn_list[1] \in before.asns =>
             /\ processed_asns = before.asns
             /\ TrackingData(processed_asns).total = TrackingData(before.asns).total
    /\ file # before.file => op \in {"save_ok", "reset"}

C7_Witness ==
    /\ op = "mark"
    /\ asn_list[1] \in before.asns
    /\ Cardinality(before.asns) >= 2
    /\ LoadFile(file).set # processed_asns

\* C8: constructing the tracker never raises: whatever the tracking file
\* holds, it completes; a file that is not well-formed yields the empty
\* set, a well-formed one the set of its stored array.
C8_LoadNeverFails ==
    op \in {"load", "load_raised"} =>
        /\ op = "load"
        /\ before.file.kind # "ok" => processed_asns = {}
        /\ before.file.kind = "ok" => processed_asns = Range(before.file.asns)

(***************************************************************************)
(* Properties of the batch run (checked under Spec).                       *)
(***************************************************************************)

\* the ASNs of the entries of a result list, in order
EntryAsns(r) == [k \in 1..Len(r) |-> r[k].asn]

\* the tracking set a process starting now would load
Persisted == LoadFile(file).set

C2_InterruptKeepsProgress ==
    pc = "interrupted" =>
        /\ file = checkpoint
        /\ processed_asns \cap Range(FilterNew(Persisted, asn_list).new) = {}

\* C3: a failure inside an item never aborts the batch: the item's step
\* always goes on to the checkpoint step with one more entry, for that ASN
\* (the error record when it failed), and a run that reaches the final save
\* holds exactly one entry per ASN of the new partition, in its order.
C3_ItemFailureNeverAborts ==
    /\ [](/\ pc = "item" => Len(results) = i - 1
          /\ pc \in {"ckpt", "sleep"} => Len(results) = i
          /\ pc \in {"final", "write", "done"} => EntryAsns(results) = new_asns
          /\ pc \in Running =>
               /\ failed_count = Cardinality({k \in 1..Len(results) : results[k].error})
               /\ successful_count + failed_count = Len(results))
    /\ [][(pc = "item" /\ pc' # "interrupted") =>
            /\ pc' = "ckpt"
            /\ Len(results') = Len(results) + 1
            /\ results'[Len(results')].asn = new_asns[i]
            /\ results'[Len(results')].error <=> failed_count' = failed_count + 1]_vars

C3_Witness ==
    /\ pc = "done"
    /\ Len(results) >= 3
    /\ results[1].error
    /\ ~results[2].error
    /\ outfile.kind = "written"

\* C9: no failure to write the tracking file, the creation of its parent
\* directory included, aborts the run.
C9_TrackerWriteFailureNeverAborts == ~(pc = "raised" /\ save_status = "raised")

Unpersisted == processed_asns \ Persisted

C11_OutputWrittenDuringRun ==
    (pc = "item" /\ Len(new_asns) > CheckpointEvery /\ i = Len(new_asns)) =>
        /\ outfile.kind = "written"
        /\ outfile.data = results

\* C11 (amended): the output file is written once, at the end of the run,
\* after the final save of the tracker: while the loop and the final save
\* go on nothing has been written to it, and a run that completes has
\* written the whole result list to it.  Only the tracker is saved
\* periodically.
C11_OutputWrittenOnlyAtEnd ==
    /\ pc \in {"item", "ckpt", "sleep", "final", "write"} => outfile = NoOutput
    /\ (pc = "done" /\ new_asns # <<>>) =>
         /\ outfile.kind = "written"
         /\ outfile.data = results
         /\ Len(outfile.data) = Len(new_asns)
    /\ outfile.kind = "written" => pc = "done"

C11_Witness ==
    /\ pc = "item"
    /\ Len(new_asns) > CheckpointEvery
    /\ i = Len(new_asns)
    /\ save_status = "ok"
    /\ outfile = NoOutput

\* the entries of r that are full records, not error entries
Successes(r) == {k \in 1..Len(r) : ~r[k].error}

\* C12: the items are processed in the order of the new-ASN list: the
\* entries made so far carry, position by position, the ASNs of the prefix
\* of the list walked so far, the two counters add up to the number of
\* entries, and the written output carries the i-th new ASN in its i-th
\* entry with successful + failed equal to the length of the list.
C12_ResultsFollowListOrder ==
    /\ pc \in Running =>
         /\ Len(results) = (IF pc = "item" THEN i - 1 ELSE i)
         /\ EntryAsns(results) = SubSeq(new_asns, 1, Len(results))
         /\ successful_count = Cardinality(Successes(results))
         /\ successful_count + failed_count = Len(results)
    /\ outfile.kind = "written" =>
         /\ EntryAsns(outfile.data) = new_asns
         /\ \A k \in 1..Len(new_asns) : outfile.data[k].asn = new_asns[k]
         /\ successful_count + failed_count = Len(new_asns)

C12_Witness ==
    /\ pc = "done"
    /\ outfile.kind = "written"
    /\ Len(new_asns) >= 3
    /\ new_asns[1] # new_asns[2]
    /\ failed_count = 1
    /\ successful_count = Len(new_asns) - 1

RECURSIVE SmallInt(_)
SmallInt(d) == IF d = <<>> THEN 0
                           ELSE 10 * SmallInt(SubSeq(d, 1, Len(d) - 1)) + DigitVal(d[Len(d)])

\* C14: normalize_asn accepts exactly three forms of the trimmed input: all
\* digits, returned as they are; "AS" in either case followed by digits,
\* the digits returned; digits.digits, returned as the decimal text of
\* high * 65536 + low ("1.1" gives "65537").  Every other input, the empty
\* text and a value that is not a text included, gives None; and for a text
\* d of digits "AS" + d normalizes to what d normalizes to.
C14_NormalizeAcceptsThreeForms ==
    called = "normalize_asn" =>
      LET s == IF asn_input.kind = "str" THEN Strip(asn_input.chars) ELSE <<>>
          rest == SubSeq(s, 3, Len(s))
          dots == {k \in 1..Len(s) : s[k] = "."}
          dot == CHOOSE k \in dots : TRUE
          high == SubSeq(s, 1, dot - 1)
          low == SubSeq(s, dot + 1, Len(s))
          isPlain == IsDigits(s)
          isAs == /\ Len(s) >= 3
                  /\ SubSeq(s, 1, 2) \in {<<"A", "S">>, <<"A", "s">>, <<"a", "S">>, <<"a", "s">>}
                  /\ IsDigits(rest)
          isDot == Cardinality(dots) = 1 /\ IsDigits(high) /\ IsDigits(low)
      IN  /\ (asn_input.kind # "str" \/ asn_input.chars = <<>>) => normalized = None
          /\ isPlain => normalized = Str(s)
          /\ isAs => normalized = Str(rest)
          /\ isDot =>
               /\ normalized.kind = "str"
               /\ IsDigits(normalized.chars)
               /\ normalized.chars = DropZeros(normalized.chars) \/ normalized.chars = <<"0">>
               /\ (Len(high) <= 4 /\ Len(low) <= 9) =>
                     /\ Len(normalized.chars) <= 9
                     /\ SmallInt(normalized.chars) =
                            SmallInt(high) * 65536 + SmallInt(low)
          /\ asn_input = Str(<<"1", ".", "1">>) =>
                normalized = Str(<<"6", "5", "5", "3", "7">>)
          /\ ~(isPlain \/ isAs \/ isDot) => normalized = None
          /\ (asn_input.kind = "str" /\ IsDigits(asn_input.chars)) =>
               /\ normalize_asn(Str(<<"A", "S">> \o asn_input.chars)) = normalized
               /\ normalize_asn(Str(<<"a", "s">> \o asn_input.chars)) = normalized

C14_Witness ==
    /\ called = "normalize_asn"
    /\ asn_input = Str(<<" ", "1", ".", "1">>)
    /\ normalized = Str(<<"6", "5", "5", "3", "7">>)

\* C15: is_valid_asn(s) is true exactly when s parses as an integer n with
\* 1 <= n <= 23456, 64496 <= n <= 65534 or 65536 <= n <= 4199999999, and
\* false for every other integer and every text that is not a number: 0,
\* 23457, 64495, 65535 and 4200000000 are invalid, 23455, 23456 and
\* 4199999999 valid.  validate_and_suggest returns a normalized value, and
\* no suggestion, exactly for the inputs that normalize to a text
\* is_valid_asn accepts.  (A number of six digits or more is at most
\* 4199999999 when it has at most ten digits and the number left of its
\* last five digits is at most 41999.)
C15_ValidExactlyInRanges ==
    /\ (called = "is_valid_asn" /\ asn_input.kind = "str") =>
         LET s == Strip(asn_input.chars)
             signed == s # <<>> /\ Head(s) \in {"+", "-"}
             d == IF signed THEN Tail(s) ELSE s
             m == IF DropZeros(d) = <<>> THEN <<"0">> ELSE DropZeros(d)
             positive == ~(signed /\ Head(s) = "-")
             n == SmallInt(m)
         IN  /\ ~IsDigits(d) => ~valid
             /\ (IsDigits(d) /\ Len(m) <= 5) =>
                  (valid <=> /\ positive
                             /\ \/ 1 <= n /\ n <= 23456
                                \/ 64496 <= n /\ n <= 65534
                                \/ 65536 <= n)
             /\ (IsDigits(d) /\ Len(m) > 5) =>
                  (valid <=> /\ positive
                             /\ Len(m) <= 10
                             /\ SmallInt(SubSeq(m, 1, Len(m) - 5)) <= 41999)
             /\ asn_input.chars \in
                    {<<"0">>, <<"2", "3", "4", "5", "7">>, <<"6", "4", "4", "9", "5">>,
                     <<"6", "5", "5", "3", "5">>,
                     <<"4", "2", "0", "0", "0", "0", "0", "0", "0", "0">>} => ~valid
             /\ asn_input.chars \in
                    {<<"2", "3", "4", "5", "5">>, <<"2", "3", "4", "5", "6">>,
                     <<"4", "1", "9", "9", "9", "9", "9", "9", "9", "9">>} => valid
    /\ called = "validate_and_suggest" =>
         LET n == normalize_asn(asn_input) IN
         /\ normalized # None <=> (n # None /\ is_valid_asn(n))
         /\ normalized # None => (normalized = n /\ suggestion = None)
         /\ normalized = None => suggestion # None

C15_Witness ==
    /\ called = "validate_and_suggest"
    /\ asn_input = Str(Dec(64086) \o <<".">> \o Dec(59903))
    /\ normalized = Str(<<"4", "1", "9", "9", "9", "9", "9", "9", "9", "9">>)
    /\ suggestion = None

\* C18: normalization is canonical.  An accepted input normalizes to the
\* same string as the plain decimal text of the AS number it denotes (so
\* two inputs that denote one number, in any notation and with or without
\* leading zeros, normalize alike), and normalizing a normalized string
\* returns it unchanged.
C18_NormalizationCanonical ==
    (called = "normalize_asn" /\ normalized # None) =>
        /\ normalize_asn(Str(IntStr(ParseDigits(normalized.chars)))) = normalized
        /\ normalize_asn(normalized) = normalized

\* the ASNs with a full record among the entries r
SuccessAsns(r) == {r[k].asn : k \in Successes(r)}

\* C16: an ASN is marked done exactly when its item produced a full record.
\* Once an item is over, its ASN is in the tracking set if its entry is a
\* record, whatever the routing lookup returned (the bare ASN included) and
\* whether the company lookup was skipped, succeeded or returned none; an
\* item that ended in the error path marks nothing.  So during and after
\* the run the tracking set is the set loaded at the start plus the ASNs
\* with a non-error entry.
C16_MarkedIffFullRecord ==
    /\ (pc \in Running \/ (pc = "done" /\ new_asns # <<>>)) =>
         /\ processed_asns = loaded \cup SuccessAsns(results)
         /\ ~force => processed_asns \ loaded = SuccessAsns(results)
    /\ pc = "ckpt" =>
         /\ ~results[i].error =>
              /\ new_asns[i] \in processed_asns
              /\ bgp_info \in {"site", "nosite", "asn_only"}
              /\ company_info \in {"skipped", "info", "none"}
         /\ results[i].error =>
              (new_asns[i] \in processed_asns <=>
                 new_asns[i] \in loaded \cup SuccessAsns(SubSeq(results, 1, i - 1)))

C16_Witness ==
    /\ pc = "ckpt"
    /\ i >= 2
    /\ bgp_info = "asn_only"
    /\ company_info = "skipped"
    /\ ~results[i].error
    /\ new_asns[i] \notin loaded
    /\ new_asns[i] \in processed_asns
    /\ \E k \in 1..(i - 1) : results[k].error /\ results[k].asn \notin processed_asns

\* C17: batch processing is deduplicated within a run.  Whatever list is
\* requested, one that holds the same ASN more than once included, forced
\* or not, each ASN is processed at most once in the run: no two entries of
\* the results carry the same ASN.
C17_EachAsnProcessedOnce ==
    (pc \in Running \/ pc = "done") =>
        \A j, k \in 1..Len(results) : j # k => results[j].asn # results[k].asn

\* C19: no result is lost behind the tracker.  In every state of a run, after a
\* failed write of the output file or an interruption that follows a
\* periodic checkpoint included, every ASN that this process added to the
\* persisted tracking file has its record in an output file that was
\* written.
C19_NoResultLostBehindTracker ==
    (pc \in Running \/ pc \in {"done", "interrupted", "raised"}) =>
        \A a \in Persisted \ loaded :
            /\ outfile.kind = "written"
            /\ \E k \in 1..Len(outfile.data) :
                  outfile.data[k].asn = a /\ ~outfile.data[k].error

====
